---- MODULE Spec2Model ----
(***************************************************************************)
(* A model of susp.c: thread suspend and resume built from SIGUSR1,        *)
(* SIGUSR2, sigsuspend, a mutex, a one-time initializer, a registry of     *)
(* suspended threads (array/bottom) and the readiness flag sentinel.       *)
(*                                                                         *)
(* Every program statement that reads or writes shared state is one        *)
(* action; the label of a caller's position is the source line of the     *)
(* statement it executes next (s135 = line 135 of thd_suspend, c214 =      *)
(* line 214 of thd_continue, l56 = line 56 of the suspend handler).        *)
(*                                                                         *)
(* Signals are asynchronous: pthread_kill makes the signal pending on the  *)
(* target, and a separate action of the target delivers it once the        *)
(* target's signal mask lets it through.                                   *)
(*                                                                         *)
(* Modelling decisions:                                                    *)
(*  - calloc and sigaction in suspend_init_routine succeed, and            *)
(*    pthread_once and pthread_mutex_lock return 0;                        *)
(*  - realloc may fail (the code tests for it);                            *)
(*  - pthread_kill may fail (the code tests its result in both callers);   *)
(*  - no worker terminates while calls are made (Note 3 of susp.c): a      *)
(*    worker that has done its iterations stays where it is;               *)
(*  - a read past the end of the registry yields an arbitrary value; a     *)
(*    write past the end either goes unnoticed or brings the process down; *)
(*    dereferencing a NULL registry brings the process down.               *)
(***************************************************************************)
EXTENDS Integers, Sequences, FiniteSets, TLC

\* ---------------------------------------------------------------- bounds
NWorkers == 2          \* worker threads of the concurrent configuration
NCallers == 2          \* threads calling thd_suspend / thd_continue
MaxIter == 1           \* iterations of thread_routine, scaled down
GrowExtra == 1         \* workers beyond the initial capacity (growth runs)
MaxOverrun == 1        \* how far past the block the empty-slot scan may run
MaxGrow == 2           \* how many slots the registry may gain

\* ------------------------------------------------------ program constants
InitialCapacity == 10
ESRCH == 3
ENOMEM == 12
Junk == -1

SIGUSR1 == "SIGUSR1"
SIGUSR2 == "SIGUSR2"
Signals == {SIGUSR1, SIGUSR2}

null_pthread == 0
NULL == [k \in {} |-> 0]

NGrow == InitialCapacity + GrowExtra

VARIABLES
    sentinel,   \* volatile int sentinel
    once,       \* pthread_once_t once: "INIT", "RUNNING", "DONE"
    array,      \* pthread_t *array: NULL or the block, indexed from 0
    bottom,     \* int bottom
    inited,     \* int inited
    mut,        \* pthread_mutex_t mut: 0 when free, else the owner
    handlers,   \* signals whose disposition is a handler (sigaction)
    count,      \* worker -> the loop variable i of thread_routine
    pending,    \* thread -> signals pending on it
    sigmask,    \* thread -> signals it blocks
    frames,     \* thread -> stack of signal handler frames
    pc,         \* caller -> position in thd_suspend / thd_continue
    target,     \* caller -> target_thread
    i,          \* caller -> local i
    driver,     \* the sequential caller's loop: [phase, next]
    crashed,    \* the process was brought down by a fault
    entry,      \* caller -> the registry as it was when the call locked mut
    last        \* caller -> the call it has returned from, while idle

vars == <<sentinel, once, array, bottom, inited, mut, handlers, count,
          pending, sigmask, frames, pc, target, i, driver, crashed,
          entry, last>>

globals == <<sentinel, once, array, bottom, inited, mut, handlers>>
threadv == <<count, pending, sigmask, frames>>
callerv == <<pc, target, i>>
ghostv  == <<entry, last>>

Workers == DOMAIN count
Callers == DOMAIN pc
Threads == DOMAIN frames

\* ------------------------------------------------------------- helpers
\* target_thread is stored in one of the slots array[0 .. bottom-1]
Recorded(t) == array # NULL /\ \E k \in DOMAIN array : k < bottom /\ array[k] = t

SlotOf(t) == CHOOSE k \in DOMAIN array : array[k] = t

\* the scan with array[++i] in the place of array[i++]: slot 0 is skipped
Found152PreIncrement(t) == \E k \in 1 .. (bottom - 1) : array[k] = t

\* while (i < bottom) if (array[i++] == target_thread): the scan finds t
Found152(t) == \E k \in 0 .. (bottom - 1) : array[k] = t

\* while (array[i] != target_thread && i < bottom) i++;  the value of i
Lookup232(t) ==
    IF \E k \in 0 .. (bottom - 1) : array[k] = t
    THEN CHOOSE k \in 0 .. (bottom - 1) :
            array[k] = t /\ \A j \in 0 .. (k - 1) : array[j] # t
    ELSE bottom

\* the test with > in the place of >=
NotFound235Strict(k) == k > bottom

\* if (i >= bottom)
NotFound235(k) == k >= bottom

\* the first k with array[k] == 0, when there is one inside the block
HasEmpty == \E k \in DOMAIN array : array[k] = 0
\* the scan that never advances i
FirstEmptyStuck == CHOOSE k \in DOMAIN array : \A j \in DOMAIN array : k <= j

FirstEmpty == CHOOSE k \in DOMAIN array :
                 array[k] = 0 /\ \A j \in DOMAIN array : j < k => array[j] # 0

InHandler(t) == frames[t] # <<>>
Top(t) == frames[t][Len(frames[t])]
SetTop(t, f) == [frames EXCEPT ![t] = [@ EXCEPT ![Len(@)] = f]]
Pop(t) == [frames EXCEPT ![t] = SubSeq(@, 1, Len(@) - 1)]

\* the thread waits inside sigsuspend of the suspend handler
Blocked(t) == InHandler(t) /\ Top(t).h = "suspend" /\ Top(t).pc = "sigsuspend"

\* the thread executes the suspend handler, or a handler nested in it
InSuspendHandler(t) == \E k \in 1 .. Len(frames[t]) : frames[t][k].h = "suspend"

SuspendPcs == {"s135", "init91", "init105", "init109", "init113", "s142",
               "s152", "s163", "s167", "s181", "s182", "s191", "s194"}
ContinuePcs == {"c214", "c222", "c232", "c244", "c250"}

ContinueActive(t) == \E c \in Callers : pc[c] \in ContinuePcs /\ target[c] = t
SuspendActive(t) == \E c \in Callers : pc[c] \in SuspendPcs /\ target[c] = t

\* a caller runs only outside signal handlers
CanRun(c) == ~crashed /\ frames[c] = <<>>

\* ------------------------------------------------------------- Init
NoCall == [op |-> "none", status |-> 0, path |-> "none"]
NoEntry == [array |-> NULL, bottom |-> -1]

InitWith(ws, cs) ==
    /\ sentinel = 0
    /\ once = "INIT"
    /\ array = NULL
    /\ bottom = 0
    /\ inited = 0
    /\ mut = 0
    /\ handlers = {}
    /\ count = [t \in ws |-> 0]
    /\ pending = [t \in ws \cup cs |-> {}]
    /\ sigmask = [t \in ws \cup cs |-> {}]
    /\ frames = [t \in ws \cup cs |-> <<>>]
    /\ pc = [c \in cs |-> "idle"]
    /\ target = [c \in cs |-> 0]
    /\ i = [c \in cs |-> 0]
    /\ driver = [phase |-> "suspend", next |-> 1]
    /\ crashed = FALSE
    /\ entry = [c \in cs |-> NoEntry]
    /\ last = [c \in cs |-> NoCall]

Init == InitWith(1 .. NWorkers, (NWorkers + 1) .. (NWorkers + NCallers))

InitGrow == InitWith(1 .. NGrow, {NGrow + 1})

\* ----------------------------------------------------- calls and returns
\* The caller c starts thd_suspend(t) or thd_continue(t).
Begin(c, op, t) ==
    /\ pc[c] = "idle"
    /\ pc' = [pc EXCEPT ![c] = IF op = "suspend" THEN "s135" ELSE "c214"]
    /\ target' = [target EXCEPT ![c] = t]
    /\ i' = [i EXCEPT ![c] = 0]
    /\ last' = [last EXCEPT ![c] = NoCall]
    /\ entry' = entry

\* The caller c returns st from its call; path names the return statement.
Return(c, op, st, path) ==
    /\ pc' = [pc EXCEPT ![c] = "idle"]
    /\ target' = [target EXCEPT ![c] = 0]
    /\ i' = [i EXCEPT ![c] = 0]
    /\ last' = [last EXCEPT ![c] = [op |-> op, status |-> st, path |-> path]]
    /\ entry' = [entry EXCEPT ![c] = NoEntry]

Goto(c, l) ==
    /\ pc' = [pc EXCEPT ![c] = l]
    /\ UNCHANGED <<target, i, entry, last>>

\* pthread_mutex_lock (&mut) has returned: c goes on to l
Locked(c, l) ==
    /\ pc' = [pc EXCEPT ![c] = l]
    /\ entry' = [entry EXCEPT ![c] = [array |-> array, bottom |-> bottom]]
    /\ UNCHANGED <<target, i, last>>

\* Any caller, any operation, any worker as the target.
Call(c) ==
    /\ CanRun(c)
    /\ \E op \in {"suspend", "continue"} : \E t \in Workers : Begin(c, op, t)
    /\ UNCHANGED <<globals, threadv, driver, crashed>>

\* no handler step of t is possible: t runs its own code or waits
Settled(t) ==
    /\ pending[t] \ sigmask[t] = {}
    /\ InHandler(t) => Top(t).pc = "sigsuspend"

\* The sequential caller: suspend threads[1..n] in order, then continue
\* them in order, as the loops of main do; it repeats a call that failed
\* instead of aborting, and it makes a call once every thread has settled.
DriverCall(c) ==
    /\ CanRun(c)
    /\ \A t \in Threads : Settled(t)
    /\ LET retry == last[c].op # "none" /\ last[c].status # 0
           n == IF retry THEN driver.next - 1 ELSE driver.next
       IN
       \/ /\ driver.phase = "suspend"
          /\ n \in Workers
          /\ Begin(c, "suspend", n)
          /\ driver' = [driver EXCEPT !.next = n + 1]
       \/ /\ driver.phase = "suspend"
          /\ pc[c] = "idle"
          /\ ~retry
          /\ driver.next > 1
          /\ driver' = [phase |-> "continue", next |-> 1]
          /\ UNCHANGED <<callerv, ghostv>>
       \/ /\ driver.phase = "continue"
          /\ n \in Workers
          /\ Begin(c, "continue", n)
          /\ driver' = [driver EXCEPT !.next = n + 1]
    /\ UNCHANGED <<globals, threadv, crashed>>

\* ------------------------------------------------------------ environment
\* pthread_kill (t, sig) returns 0 and the signal is pending on t, or it
\* returns an error number and nothing is sent.
KillOutcomes(t) == {0, ESRCH}

\* what realloc leaves in the slot it adds
Garbage == {0, Junk}

\* a store past the end of the block: unnoticed, or fatal
WildStore == {FALSE, TRUE}

\* the wait of line 191 left out
WaitOverAtOnce == TRUE

\* while (sentinel == 0) sched_yield ();
WaitOver == sentinel # 0

\* --------------------------------------------------- suspend_init_routine
\* a pthread_once that returns while another thread runs the routine
S135NoWait(c) ==
    /\ CanRun(c)
    /\ pc[c] = "s135"
    /\ \/ /\ once # "INIT"
          /\ Goto(c, "s142")
          /\ UNCHANGED once
       \/ /\ once = "INIT"
          /\ once' = "RUNNING"
          /\ Goto(c, "init91")
    /\ UNCHANGED <<sentinel, array, bottom, inited, mut, handlers, threadv,
                   driver, crashed>>

\* pthread_once (&once, suspend_init_routine)
S135(c) ==
    /\ CanRun(c)
    /\ pc[c] = "s135"
    /\ \/ /\ once = "DONE"
          /\ Goto(c, "s142")
          /\ UNCHANGED once
       \/ /\ once = "INIT"
          /\ once' = "RUNNING"
          /\ Goto(c, "init91")
    /\ UNCHANGED <<sentinel, array, bottom, inited, mut, handlers, threadv,
                   driver, crashed>>

\* bottom = 10; array = calloc (bottom, sizeof (pthread_t));
Init91(c) ==
    /\ CanRun(c)
    /\ pc[c] = "init91"
    /\ bottom' = InitialCapacity
    /\ array' = [k \in 0 .. (InitialCapacity - 1) |-> null_pthread]
    /\ Goto(c, "init105")
    /\ UNCHANGED <<sentinel, once, inited, mut, handlers, threadv, driver,
                   crashed>>

\* sigaction (SIGUSR1, &sigusr1, NULL)
Init105(c) ==
    /\ CanRun(c)
    /\ pc[c] = "init105"
    /\ handlers' = handlers \cup {SIGUSR1}
    /\ Goto(c, "init109")
    /\ UNCHANGED <<sentinel, once, array, bottom, inited, mut, threadv, driver,
                   crashed>>

\* sigaction (SIGUSR2, &sigusr2, NULL)
Init109(c) ==
    /\ CanRun(c)
    /\ pc[c] = "init109"
    /\ handlers' = handlers \cup {SIGUSR2}
    /\ Goto(c, "init113")
    /\ UNCHANGED <<sentinel, once, array, bottom, inited, mut, threadv, driver,
                   crashed>>

\* inited = 1; return; and pthread_once returns 0
Init113(c) ==
    /\ CanRun(c)
    /\ pc[c] = "init113"
    /\ inited' = 1
    /\ once' = "DONE"
    /\ Goto(c, "s142")
    /\ UNCHANGED <<sentinel, array, bottom, mut, handlers, threadv, driver,
                   crashed>>

\* ------------------------------------------------------------ thd_suspend
\* a lock that lets a second caller in while mut is held
S142Barges(c) ==
    /\ CanRun(c)
    /\ pc[c] = "s142"
    /\ mut' = c
    /\ Locked(c, "s152")
    /\ UNCHANGED <<sentinel, once, array, bottom, inited, handlers, threadv,
                   driver, crashed>>

\* pthread_mutex_lock (&mut)
S142(c) ==
    /\ CanRun(c)
    /\ pc[c] = "s142"
    /\ mut = 0
    /\ mut' = c
    /\ Locked(c, "s152")
    /\ UNCHANGED <<sentinel, once, array, bottom, inited, handlers, threadv,
                   driver, crashed>>

\* while (i < bottom) if (array[i++] == target_thread) { unlock; return }
S152(c) ==
    /\ CanRun(c)
    /\ pc[c] = "s152"
    /\ IF array = NULL /\ bottom > 0
       THEN /\ crashed' = TRUE
            /\ UNCHANGED <<mut, callerv, ghostv>>
       ELSE /\ crashed' = crashed
            /\ IF Found152(target[c])
               THEN /\ mut' = 0
                    /\ Return(c, "suspend", 0, "already")
               ELSE /\ mut' = mut
                    /\ Goto(c, "s163")
    /\ UNCHANGED <<sentinel, once, array, bottom, inited, handlers, threadv,
                   driver>>

\* i = 0; while (array[i] != 0) i++;  if (i == bottom) ...
S163(c) ==
    /\ CanRun(c)
    /\ pc[c] = "s163"
    /\ IF HasEmpty
       THEN /\ i' = [i EXCEPT ![c] = FirstEmpty]
       ELSE /\ \E k \in bottom .. (bottom + MaxOverrun) :
                  i' = [i EXCEPT ![c] = k]
    /\ pc' = [pc EXCEPT ![c] = IF i'[c] = bottom THEN "s167" ELSE "s181"]
    /\ UNCHANGED <<globals, threadv, target, ghostv, driver, crashed>>

\* array = realloc (array, ++bottom * sizeof (pthread_t));
\* if (array == NULL) { unlock; return errno; }
\* array[bottom] = null_pthread;
S167(c) ==
    /\ CanRun(c)
    /\ pc[c] = "s167"
    /\ bottom < InitialCapacity + MaxGrow
    /\ bottom' = bottom + 1
    /\ \/ /\ array' = NULL
          /\ mut' = 0
          /\ Return(c, "suspend", ENOMEM, "nomem")
          /\ UNCHANGED crashed
       \/ /\ \E g \in Garbage :
                array' = [k \in 0 .. bottom |->
                            IF k < bottom THEN array[k] ELSE g]
          /\ \E f \in WildStore : crashed' = f
          /\ mut' = mut
          /\ Goto(c, "s181")
    /\ UNCHANGED <<sentinel, once, inited, handlers, threadv, driver>>

\* thd_suspend sending the signal without clearing the flag first
S181KeepsFlag(c) ==
    /\ CanRun(c)
    /\ pc[c] = "s181"
    /\ Goto(c, "s182")
    /\ UNCHANGED <<globals, threadv, driver, crashed>>

\* sentinel = 0;
S181(c) ==
    /\ CanRun(c)
    /\ pc[c] = "s181"
    /\ sentinel' = 0
    /\ Goto(c, "s182")
    /\ UNCHANGED <<once, array, bottom, inited, mut, handlers, threadv, driver,
                   crashed>>

\* thd_suspend returning the error of pthread_kill with mut still locked
S182KeepsLock(c) ==
    /\ CanRun(c)
    /\ pc[c] = "s182"
    /\ \E st \in KillOutcomes(target[c]) :
          IF st = 0
          THEN /\ pending' = [pending EXCEPT ![target[c]] = @ \cup {SIGUSR1}]
               /\ Goto(c, "s191")
          ELSE /\ pending' = pending
               /\ Return(c, "suspend", st, "kill_failed")
    /\ UNCHANGED <<sentinel, once, array, bottom, inited, mut, handlers, count,
                   sigmask, frames, driver, crashed>>

\* status = pthread_kill (target_thread, SIGUSR1);
\* if (status != 0) { unlock; return status; }
S182(c) ==
    /\ CanRun(c)
    /\ pc[c] = "s182"
    /\ \E st \in KillOutcomes(target[c]) :
          IF st = 0
          THEN /\ pending' = [pending EXCEPT ![target[c]] = @ \cup {SIGUSR1}]
               /\ mut' = mut
               /\ Goto(c, "s191")
          ELSE /\ pending' = pending
               /\ mut' = 0
               /\ Return(c, "suspend", st, "kill_failed")
    /\ UNCHANGED <<sentinel, once, array, bottom, inited, handlers, count,
                   sigmask, frames, driver, crashed>>

\* while (sentinel == 0) sched_yield ();
S191(c) ==
    /\ CanRun(c)
    /\ pc[c] = "s191"
    /\ WaitOver
    /\ Goto(c, "s194")
    /\ UNCHANGED <<globals, threadv, driver, crashed>>

\* array[i] = target_thread; status = pthread_mutex_unlock (&mut); return
S194(c) ==
    /\ CanRun(c)
    /\ pc[c] = "s194"
    /\ IF i[c] \in DOMAIN array
       THEN /\ array' = [array EXCEPT ![i[c]] = target[c]]
            /\ UNCHANGED crashed
       ELSE /\ array' = array
            /\ \E f \in WildStore : crashed' = f
    /\ mut' = 0
    /\ Return(c, "suspend", 0, "suspended")
    /\ UNCHANGED <<sentinel, once, bottom, inited, handlers, threadv, driver>>

\* ----------------------------------------------------------- thd_continue
\* pthread_mutex_lock (&mut)
C214(c) ==
    /\ CanRun(c)
    /\ pc[c] = "c214"
    /\ mut = 0
    /\ mut' = c
    /\ Locked(c, "c222")
    /\ UNCHANGED <<sentinel, once, array, bottom, inited, handlers, threadv,
                   driver, crashed>>

\* if (!inited) { status = pthread_mutex_unlock (&mut); return status; }
C222(c) ==
    /\ CanRun(c)
    /\ pc[c] = "c222"
    /\ IF inited = 0
       THEN /\ mut' = 0
            /\ Return(c, "continue", 0, "not_inited")
       ELSE /\ mut' = mut
            /\ Goto(c, "c232")
    /\ UNCHANGED <<sentinel, once, array, bottom, inited, handlers, threadv,
                   driver, crashed>>

\* while (array[i] != target_thread && i < bottom) i++;
\* if (i >= bottom) { unlock; return 0; }
C232(c) ==
    /\ CanRun(c)
    /\ pc[c] = "c232"
    /\ IF array = NULL
       THEN /\ crashed' = TRUE
            /\ UNCHANGED <<mut, callerv, ghostv>>
       ELSE /\ crashed' = crashed
            /\ IF NotFound235(Lookup232(target[c]))
               THEN /\ mut' = 0
                    /\ Return(c, "continue", 0, "not_found")
               ELSE /\ i' = [i EXCEPT ![c] = Lookup232(target[c])]
                    /\ pc' = [pc EXCEPT ![c] = "c244"]
                    /\ UNCHANGED <<mut, target, ghostv>>
    /\ UNCHANGED <<sentinel, once, array, bottom, inited, handlers, threadv,
                   driver>>

\* thd_continue clearing the slot before it knows that the signal was sent
C244ClearsFirst(c) ==
    /\ CanRun(c)
    /\ pc[c] = "c244"
    /\ \E st \in KillOutcomes(target[c]) :
          IF st = 0
          THEN /\ pending' = [pending EXCEPT ![target[c]] = @ \cup {SIGUSR2}]
               /\ mut' = mut
               /\ array' = array
               /\ Goto(c, "c250")
          ELSE /\ pending' = pending
               /\ mut' = 0
               /\ array' = [array EXCEPT ![i[c]] = 0]
               /\ Return(c, "continue", st, "kill_failed")
    /\ UNCHANGED <<sentinel, once, bottom, inited, handlers, count,
                   sigmask, frames, driver, crashed>>

\* status = pthread_kill (target_thread, SIGUSR2);
\* if (status != 0) { unlock; return status; }
C244(c) ==
    /\ CanRun(c)
    /\ pc[c] = "c244"
    /\ \E st \in KillOutcomes(target[c]) :
          IF st = 0
          THEN /\ pending' = [pending EXCEPT ![target[c]] = @ \cup {SIGUSR2}]
               /\ mut' = mut
               /\ Goto(c, "c250")
          ELSE /\ pending' = pending
               /\ mut' = 0
               /\ Return(c, "continue", st, "kill_failed")
    /\ UNCHANGED <<sentinel, once, array, bottom, inited, handlers, count,
                   sigmask, frames, driver, crashed>>

\* thd_continue returning without clearing the slot
C250KeepsSlot(c) ==
    /\ CanRun(c)
    /\ pc[c] = "c250"
    /\ mut' = 0
    /\ Return(c, "continue", 0, "resumed")
    /\ UNCHANGED <<sentinel, once, array, bottom, inited, handlers, threadv,
                   driver, crashed>>

\* array[i] = 0; status = pthread_mutex_unlock (&mut); return status;
C250(c) ==
    /\ CanRun(c)
    /\ pc[c] = "c250"
    /\ array' = [array EXCEPT ![i[c]] = 0]
    /\ mut' = 0
    /\ Return(c, "continue", 0, "resumed")
    /\ UNCHANGED <<sentinel, once, bottom, inited, handlers, threadv, driver,
                   crashed>>

\* ------------------------------------------------------- target threads
\* thread_routine: one iteration of  for (i = 1; i <= iterations; i++)
Workload(t) ==
    /\ ~crashed
    /\ ~InHandler(t)
    /\ t \in Callers => pc[t] = "idle"
    /\ count[t] < MaxIter
    /\ count' = [count EXCEPT ![t] = @ + 1]
    /\ UNCHANGED <<globals, pending, sigmask, frames, callerv, ghostv,
                   driver, crashed>>

HandlerOf(sig) == IF sig = SIGUSR1 THEN "suspend" ELSE "resume"
FirstPc(sig) == IF sig = SIGUSR1 THEN "l56" ELSE "l74"

\* The kernel delivers a pending, unblocked signal to t: the handler runs
\* with the signal added to the mask (sa_mask is empty, sa_flags is 0); a
\* sigsuspend that the delivery interrupts returns once the handler has.
Deliver(t, sig) ==
    /\ ~crashed
    /\ sig \in pending[t] \ sigmask[t]
    /\ pending' = [pending EXCEPT ![t] = @ \ {sig}]
    /\ IF sig \in handlers
       THEN /\ frames' = [frames EXCEPT ![t] =
                 Append(IF InHandler(t) /\ Top(t).pc = "sigsuspend"
                        THEN [@ EXCEPT ![Len(@)].pc = "woken"]
                        ELSE @,
                        [h |-> HandlerOf(sig), pc |-> FirstPc(sig),
                         saved |-> sigmask[t], old |-> {}])]
            /\ sigmask' = [sigmask EXCEPT ![t] = @ \cup {sig}]
            /\ crashed' = crashed
       ELSE /\ crashed' = TRUE
            /\ UNCHANGED <<frames, sigmask>>
    /\ UNCHANGED <<globals, count, callerv, ghostv, driver>>

\* suspend_signal_handler: sigfillset; sigdelset (SIGUSR2); sentinel = 1;
H56(t) ==
    /\ ~crashed
    /\ InHandler(t)
    /\ Top(t).h = "suspend" /\ Top(t).pc = "l56"
    /\ sentinel' = 1
    /\ frames' = SetTop(t, [Top(t) EXCEPT !.pc = "l57"])
    /\ UNCHANGED <<once, array, bottom, inited, mut, handlers, count,
                   pending, sigmask, callerv, ghostv, driver, crashed>>

\* a sigsuspend whose mask lets every signal through
H57OpenMask(t) ==
    /\ ~crashed
    /\ InHandler(t)
    /\ Top(t).h = "suspend" /\ Top(t).pc = "l57"
    /\ frames' = SetTop(t, [Top(t) EXCEPT !.pc = "sigsuspend",
                                          !.old = sigmask[t]])
    /\ sigmask' = [sigmask EXCEPT ![t] = {}]
    /\ UNCHANGED <<globals, count, pending, callerv, ghostv, driver,
                   crashed>>

\* suspend_signal_handler: sigsuspend (&signal_set) installs the mask and
\* waits
H57(t) ==
    /\ ~crashed
    /\ InHandler(t)
    /\ Top(t).h = "suspend" /\ Top(t).pc = "l57"
    /\ frames' = SetTop(t, [Top(t) EXCEPT !.pc = "sigsuspend",
                                          !.old = sigmask[t]])
    /\ sigmask' = [sigmask EXCEPT ![t] = Signals \ {SIGUSR2}]
    /\ UNCHANGED <<globals, count, pending, callerv, ghostv, driver,
                   crashed>>

\* sigsuspend returns after a handler has run: the mask is restored
H57Return(t) ==
    /\ ~crashed
    /\ InHandler(t)
    /\ Top(t).h = "suspend" /\ Top(t).pc = "woken"
    /\ frames' = SetTop(t, [Top(t) EXCEPT !.pc = "l63"])
    /\ sigmask' = [sigmask EXCEPT ![t] = Top(t).old]
    /\ UNCHANGED <<globals, count, pending, callerv, ghostv, driver,
                   crashed>>

\* suspend_signal_handler: return
H63(t) ==
    /\ ~crashed
    /\ InHandler(t)
    /\ Top(t).h = "suspend" /\ Top(t).pc = "l63"
    /\ frames' = Pop(t)
    /\ sigmask' = [sigmask EXCEPT ![t] = Top(t).saved]
    /\ UNCHANGED <<globals, count, pending, callerv, ghostv, driver,
                   crashed>>

\* resume_signal_handler: return
H74(t) ==
    /\ ~crashed
    /\ InHandler(t)
    /\ Top(t).h = "resume" /\ Top(t).pc = "l74"
    /\ frames' = Pop(t)
    /\ sigmask' = [sigmask EXCEPT ![t] = Top(t).saved]
    /\ UNCHANGED <<globals, count, pending, callerv, ghostv, driver,
                   crashed>>

\* ------------------------------------------------------- specifications
CallerStep(c) ==
    \/ S135(c) \/ Init91(c) \/ Init105(c) \/ Init109(c) \/ Init113(c)
    \/ S142(c) \/ S152(c) \/ S163(c) \/ S181(c) \/ S182(c) \/ S191(c)
    \/ S194(c)
    \/ C214(c) \/ C222(c) \/ C232(c) \/ C244(c) \/ C250(c)

HandlerStep(t) ==
    \/ \E sig \in Signals : Deliver(t, sig)
    \/ H56(t) \/ H57(t) \/ H57Return(t) \/ H63(t) \/ H74(t)

\* Concurrent callers and a few workers that run their loop.
Next ==
    \/ \E c \in Callers : Call(c)
    \/ \E c \in Callers : S135(c)
    \/ \E c \in Callers : Init91(c)
    \/ \E c \in Callers : Init105(c)
    \/ \E c \in Callers : Init109(c)
    \/ \E c \in Callers : Init113(c)
    \/ \E c \in Callers : S142(c)
    \/ \E c \in Callers : S152(c)
    \/ \E c \in Callers : S163(c)
    \/ \E c \in Callers : S181(c)
    \/ \E c \in Callers : S182(c)
    \/ \E c \in Callers : S191(c)
    \/ \E c \in Callers : S194(c)
    \/ \E c \in Callers : C214(c)
    \/ \E c \in Callers : C222(c)
    \/ \E c \in Callers : C232(c)
    \/ \E c \in Callers : C244(c)
    \/ \E c \in Callers : C250(c)
    \/ \E t \in Threads, sig \in Signals : Deliver(t, sig)
    \/ \E t \in Threads : H56(t)
    \/ \E t \in Threads : H57(t)
    \/ \E t \in Threads : H57Return(t)
    \/ \E t \in Threads : H63(t)
    \/ \E t \in Threads : H74(t)
    \/ \E t \in Workers : Workload(t)

Spec == Init /\ [][Next]_vars

\* Fair scheduling of every thread; no caller is obliged to make a call.
Fairness ==
    /\ \A c \in (NWorkers + 1) .. (NWorkers + NCallers) : WF_vars(CallerStep(c))
    /\ \A t \in 1 .. (NWorkers + NCallers) : WF_vars(HandlerStep(t))
    /\ \A t \in 1 .. NWorkers : WF_vars(Workload(t))

FairSpec == Spec /\ Fairness

\* A worker that makes calls itself, on itself among others, next to a
\* caller that does not run the loop.
InitSelf == InitWith({1}, {1, 2})

SpecSelf == InitSelf /\ [][Next]_vars

\* A mutex that hands the lock to every waiter in the end.
LockFairness ==
    \A c \in (NWorkers + 1) .. (NWorkers + NCallers) :
        SF_vars(S142(c)) /\ SF_vars(C214(c))

FairLockSpec == FairSpec /\ LockFairness

\* One caller suspending more threads than the registry initially holds;
\* only the last worker is scheduled to run its loop.
GrowRunners == {NGrow}

NextGrow ==
    \/ \E c \in Callers : DriverCall(c)
    \/ \E c \in Callers : S135(c)
    \/ \E c \in Callers : Init91(c)
    \/ \E c \in Callers : Init105(c)
    \/ \E c \in Callers : Init109(c)
    \/ \E c \in Callers : Init113(c)
    \/ \E c \in Callers : S142(c)
    \/ \E c \in Callers : S152(c)
    \/ \E c \in Callers : S163(c)
    \/ \E c \in Callers : S167(c)
    \/ \E c \in Callers : S181(c)
    \/ \E c \in Callers : S182(c)
    \/ \E c \in Callers : S191(c)
    \/ \E c \in Callers : S194(c)
    \/ \E c \in Callers : C214(c)
    \/ \E c \in Callers : C222(c)
    \/ \E c \in Callers : C232(c)
    \/ \E c \in Callers : C244(c)
    \/ \E c \in Callers : C250(c)
    \/ \E t \in Threads, sig \in Signals : Deliver(t, sig)
    \/ \E t \in Threads : H56(t)
    \/ \E t \in Threads : H57(t)
    \/ \E t \in Threads : H57Return(t)
    \/ \E t \in Threads : H63(t)
    \/ \E t \in Threads : H74(t)
    \/ \E t \in GrowRunners : Workload(t)

SpecGrow == InitGrow /\ [][NextGrow]_vars

\* The sequential caller of the growth runs next to a second caller that
\* calls thd_suspend or thd_continue on the first worker, until the package
\* is initialized and while the first loop works on a full registry: every
\* return statement of both functions is reached, by calls that run side by
\* side.
Driver == NGrow + 1
Prober == NGrow + 2
ProbeTargets == {1}

InitPaths == InitWith(1 .. NGrow, {Driver, Prober})

\* the first loop of main alone: suspend threads[1..n] in order
SuspendLoop(c) ==
    /\ CanRun(c)
    /\ \A t \in Threads : Settled(t)
    /\ LET retry == last[c].op # "none" /\ last[c].status # 0
           n == IF retry THEN driver.next - 1 ELSE driver.next
       IN  /\ n \in Workers
           /\ Begin(c, "suspend", n)
           /\ driver' = [driver EXCEPT !.next = n + 1]
    /\ UNCHANGED <<globals, threadv, crashed>>

ProbeCall(c) ==
    /\ CanRun(c)
    /\ \A t \in Threads : Settled(t)
    /\ inited = 0 \/ driver.next > InitialCapacity
    /\ \E op \in {"suspend", "continue"} :
          \E t \in ProbeTargets : Begin(c, op, t)
    /\ UNCHANGED <<globals, threadv, driver, crashed>>

NextPaths ==
    \/ SuspendLoop(Driver)
    \/ ProbeCall(Prober)
    \/ \E c \in Callers : S135(c)
    \/ \E c \in Callers : Init91(c)
    \/ \E c \in Callers : Init105(c)
    \/ \E c \in Callers : Init109(c)
    \/ \E c \in Callers : Init113(c)
    \/ \E c \in Callers : S142(c)
    \/ \E c \in Callers : S152(c)
    \/ \E c \in Callers : S163(c)
    \/ \E c \in Callers : S167(c)
    \/ \E c \in Callers : S181(c)
    \/ \E c \in Callers : S182(c)
    \/ \E c \in Callers : S191(c)
    \/ \E c \in Callers : S194(c)
    \/ \E c \in Callers : C214(c)
    \/ \E c \in Callers : C222(c)
    \/ \E c \in Callers : C232(c)
    \/ \E c \in Callers : C244(c)
    \/ \E c \in Callers : C250(c)
    \/ \E t \in Threads, sig \in Signals : Deliver(t, sig)
    \/ \E t \in Threads : H56(t)
    \/ \E t \in Threads : H57(t)
    \/ \E t \in Threads : H57Return(t)
    \/ \E t \in Threads : H63(t)
    \/ \E t \in Threads : H74(t)
    \/ \E t \in GrowRunners : Workload(t)

SpecPaths == InitPaths /\ [][NextPaths]_vars

TypeOK ==
    /\ sentinel \in {0, 1}
    /\ once \in {"INIT", "RUNNING", "DONE"}
    /\ mut \in {0} \cup Callers
    /\ array # NULL => DOMAIN array = 0 .. (bottom - 1)
    /\ \A t \in Threads : Len(frames[t]) <= 3

\* ------------------------------------------------------------- claims
\* thd_suspend (t) has returned 0 with t in the registry, and no
\* thd_continue (t) is in progress
Suspended(t) == Recorded(t) /\ ~ContinueActive(t)

\* the step is one of caller c
StepOf(c) == pc'[c] # pc[c]

\* the step is a return of 0 from thd_suspend by caller c
SuspendReturns0(c) == pc[c] \in {"s152", "s194"} /\ pc'[c] = "idle" /\ ~crashed'

\* C1: from the return of a successful thd_suspend (T) until a thd_continue (T)
\* is called, T executes no iteration of its loop.  A successful return
\* leaves T in the registry, T leaves the registry only in the last step of
\* a thd_continue (T), and while T is there with no thd_continue (T) under
\* way its counter does not move.
NoProgressWhileSuspended ==
    [][ /\ \A c \in Callers :
             SuspendReturns0(c) => \E k \in DOMAIN array' : array'[k] = target[c]
        /\ \A t \in Workers :
             (Recorded(t) /\ ~(\E k \in DOMAIN array' : array'[k] = t))
                => \E c \in Callers : pc[c] = "c250" /\ target[c] = t
        /\ \A t \in Workers : Suspended(t) => count'[t] = count[t]
      ]_vars

\* A worker with iterations left is suspended behind a successful
\* thd_suspend, while another worker has gone on with its loop.
SuspendedWithWorkLeft ==
    \E t \in Workers, c \in Callers :
        /\ Suspended(t)
        /\ last[c].path = "suspended"
        /\ Blocked(t)
        /\ count[t] < MaxIter
        /\ \E u \in Workers : count[u] > count[t]

\* C2: whenever thd_suspend (T) has returned 0 and no thd_continue (T) has
\* started, T is blocked inside sigsuspend.
BlockedWhenSuspendReturns ==
    \A t \in Workers : Suspended(t) => Blocked(t)


\* thd_continue (t) has sent SIGUSR2 and cleared the slot of t, t is still
\* in the suspend handler, and no call on t is in progress
Released(t) ==
    /\ InSuspendHandler(t)
    /\ ~Recorded(t)
    /\ ~SuspendActive(t)
    /\ ~ContinueActive(t)

\* C3: after a successful thd_continue (T) that follows a successful
\* thd_suspend (T), T eventually leaves the suspend handler and goes on
\* with its loop.
ResumedLeavesHandler ==
    \A t \in 1 .. NWorkers : Released(t) ~> ~InHandler(t)

\* C3, the part a finite run refutes: a released thread that still waits in
\* sigsuspend has its resume signal pending.
WakeupNotLost ==
    \A t \in Workers : (Released(t) /\ Blocked(t)) => SIGUSR2 \in pending[t]


\* the thread has raised the readiness flag in the suspend handler and is
\* about to call sigsuspend or waits in it
AtWait(t) ==
    \E k \in 1 .. Len(frames[t]) :
        frames[t][k].h = "suspend" /\ frames[t][k].pc \in {"l57", "sigsuspend"}

\* C4: a thd_suspend (T) made while T is in the registry takes no step but
\* the once test, the lock and the scan, returns 0 from the scan, sends no
\* signal and changes neither the flag nor the registry; and a thread in the
\* registry never has a second SIGUSR1 waiting for it.
IdempotentSuspend ==
    [][ /\ \A c \in Callers :
             (pc[c] \in SuspendPcs /\ Recorded(target[c]) /\ StepOf(c))
                => /\ pc[c] \in {"s135", "s142", "s152"}
                   /\ pending' = pending
                   /\ sentinel' = sentinel
                   /\ array' = array
                   /\ bottom' = bottom
                   /\ pc[c] = "s152"
                        => /\ pc'[c] = "idle"
                           /\ last'[c] = [op |-> "suspend", status |-> 0,
                                          path |-> "already"]
                           /\ mut' = 0
        /\ \A t \in Workers : Recorded(t) => SIGUSR1 \notin pending[t]
      ]_vars

\* A second thd_suspend has returned through the scan while its target
\* waits in sigsuspend.
SuspendedTwice ==
    \E c \in Callers, t \in Workers :
        /\ last[c] = [op |-> "suspend", status |-> 0, path |-> "already"]
        /\ Suspended(t)
        /\ Blocked(t)

\* C5: a thd_continue (T) made while T is not in the registry takes no step
\* but the lock, the inited test and the lookup, returns 0, sends no signal
\* and changes neither the registry, its capacity nor the flag.
ContinueOfUnsuspended ==
    [][ \A c \in Callers :
          (pc[c] \in ContinuePcs /\ ~Recorded(target[c]) /\ StepOf(c))
             => /\ pc[c] \in {"c214", "c222", "c232"}
                /\ pending' = pending
                /\ sentinel' = sentinel
                /\ array' = array
                /\ bottom' = bottom
                /\ (pc[c] = "c232" \/ (pc[c] = "c222" /\ inited = 0))
                     => /\ pc'[c] = "idle"
                        /\ last'[c].status = 0
                        /\ mut' = 0
      ]_vars

\* A thd_continue has returned from the lookup without finding its target,
\* while another thread is in the registry.
ContinuedUnsuspended ==
    \E c \in Callers, t \in Workers :
        /\ last[c] = [op |-> "continue", status |-> 0, path |-> "not_found"]
        /\ Recorded(t)

FailedContinueKeepsEntry ==
    [][ \A c \in Callers :
          /\ (pc[c] = "c244" /\ pc'[c] = "idle")
                => /\ last'[c].status # 0
                   /\ array' = entry[c].array
                   /\ bottom' = entry[c].bottom
                   /\ array'[i[c]] = target[c]
                   /\ pending' = pending
                   /\ mut' = 0
          /\ (pc[c] = "c232" /\ Recorded(target[c]) /\ StepOf(c))
                => pc'[c] = "c244"
          /\ (pc[c] = "c244" /\ pc'[c] = "c250")
                => pending'[target[c]] = pending[target[c]] \cup {SIGUSR2}
      ]_vars

\* A thd_continue has returned the error of pthread_kill and a thread is
\* still recorded and waiting.
ContinueFailed ==
    \E c \in Callers, t \in Workers :
        /\ last[c] = [op |-> "continue", status |-> ESRCH, path |-> "kill_failed"]
        /\ Recorded(t)
        /\ Blocked(t)

\* C7: when every slot is occupied thd_suspend grows the registry by one
\* slot and succeeds; bottom never decreases; every thread suspended before
\* stays in its slot and the new one is recorded.
GrowthCorrect ==
    [][ \A c \in Callers :
          /\ (pc[c] = "s163" /\ StepOf(c) /\ ~HasEmpty) => pc'[c] = "s167"
          /\ (pc[c] = "s167" /\ StepOf(c))
                => bottom' = bottom + 1 /\ pc'[c] = "s181" /\ ~crashed'
          /\ bottom' >= bottom
          /\ (pc[c] = "s194" /\ StepOf(c))
                => /\ ~crashed'
                   /\ last'[c].status = 0
                   /\ \E k \in DOMAIN array' : array'[k] = target[c]
          /\ StepOf(c)
                => \A t \in Workers \ {target[c]} :
                      \A k \in DOMAIN array :
                         array[k] = t => (k \in DOMAIN array' /\ array'[k] = t)
      ]_vars

\* C8: a thd_suspend whose pthread_kill fails returns with the registry,
\* slots and capacity, as it was when the call began.
FailedSuspendKeepsRegistry ==
    [][ \A c \in Callers :
          (pc[c] = "s182" /\ pc'[c] = "idle")
             => /\ last'[c].status # 0
                /\ array' = entry[c].array
                /\ bottom' = entry[c].bottom
      ]_vars

\* C9: a thd_suspend whose realloc fails returns an error with the
\* registry, slots and capacity, as it was when the call began.
FailedGrowthKeepsRegistry ==
    [][ \A c \in Callers :
          (pc[c] = "s167" /\ pc'[c] = "idle")
             => /\ last'[c].status # 0
                /\ bottom' = entry[c].bottom
                /\ array' = entry[c].array
      ]_vars

\* C11: whenever thd_suspend or thd_continue returns, by whichever return
\* statement, the caller held mut until that step and does not hold it after;
\* a caller that is in no call never holds mut.
MutexReleasedOnReturn ==
    [][ \A c \in Callers :
          /\ (pc[c] # "idle" /\ pc'[c] = "idle") => (mut = c /\ mut' = 0)
          /\ pc'[c] = "idle" => mut' # c
      ]_vars

\* thd_suspend has returned the error of a failed realloc and another
\* caller has locked mut since.
ReturnedNoMemUnlocked ==
    \E c \in Callers, d \in Callers :
        /\ c # d
        /\ last[c] = [op |-> "suspend", status |-> ENOMEM, path |-> "nomem"]
        /\ pc[c] = "idle"
        /\ mut = d

\* C12: each of the slots array[0 .. bottom-1] exists and holds a thread
\* identifier or 0, and no thread identifier is held by two slots.
SlotsWellFormed ==
    /\ \A k \in 0 .. (bottom - 1) :
          k \in DOMAIN array /\ array[k] \in Threads \cup {0}
    /\ \A j \in DOMAIN array, k \in DOMAIN array :
          (array[j] = array[k] /\ array[j] # 0) => j = k

\* the positions of thd_suspend and thd_continue between lock and unlock
LockedPcs == {"s152", "s163", "s167", "s181", "s182", "s191", "s194",
              "c222", "c232", "c244", "c250"}

\* C13: a step that changes a slot or the capacity of the allocated registry,
\* or that makes a signal pending on a thread, is a step of the caller that
\* holds mut; a caller between lock and unlock is the holder, so at most one
\* caller at a time scans or updates the registry.
MutationsUnderLock ==
    [][ /\ (array' # array \/ bottom' # bottom)
             => \E c \in Callers :
                   /\ StepOf(c)
                   /\ pc[c] = "init91" \/ (mut = c /\ pc[c] \in LockedPcs)
        /\ (\E t \in Threads : ~(pending'[t] \subseteq pending[t]))
             => \E c \in Callers :
                   StepOf(c) /\ mut = c /\ pc[c] \in {"s182", "c244"}
        /\ \A c \in Callers :
             /\ pc[c] \in LockedPcs => mut = c
             /\ pc'[c] \in LockedPcs => mut' = c
      ]_vars

\* A caller has just grown the full registry under the lock while the other
\* caller waits for mut.
GrownWhileOtherWaits ==
    \E c \in Callers, d \in Callers :
        /\ pc[c] = "s181" /\ mut = c
        /\ bottom = InitialCapacity + 1 /\ array # NULL
        /\ pc[d] \in {"s142", "c214"}

InitPcs == {"init91", "init105", "init109", "init113"}

\* the registry is allocated and both handlers are installed
Ready == inited = 1 /\ array # NULL /\ handlers = Signals

\* C14: suspend_init_routine is started once and never again, by one caller
\* at a time; a caller of thd_suspend is past pthread_once only when the
\* routine has completed; and every step that sends a signal or that reads
\* or writes a slot is taken with the registry allocated and both handlers
\* installed.
InitOnceBeforeUse ==
    [][ /\ once' # once
             => \/ once = "INIT" /\ once' = "RUNNING"
                \/ once = "RUNNING" /\ once' = "DONE" /\ Ready'
        /\ \A c \in Callers, d \in Callers :
             (pc'[c] \in InitPcs /\ pc'[d] \in InitPcs) => c = d
        /\ \A c \in Callers :
             /\ pc'[c] \in InitPcs => once' = "RUNNING"
             /\ pc'[c] \in SuspendPcs \ (InitPcs \cup {"s135"})
                   => (once' = "DONE" /\ Ready')
             /\ (StepOf(c) /\ pc[c] \in LockedPcs \ {"c222"}) => Ready
        /\ (\E t \in Threads : pending'[t] # pending[t]) => Ready
      ]_vars

\* Two first calls of thd_suspend at once: one caller is at the end of the
\* routine, the other is held at pthread_once.
HeldAtOnce ==
    \E c \in Callers, d \in Callers :
        /\ pc[c] = "init113"
        /\ pc[d] = "s135"
        /\ once = "RUNNING"
        /\ array # NULL /\ handlers = Signals /\ inited = 0

\* SIGUSR1 has been sent to t and t has not yet set sentinel for it
Outstanding(t) ==
    \/ SIGUSR1 \in pending[t]
    \/ \E k \in 1 .. Len(frames[t]) :
          frames[t][k].h = "suspend" /\ frames[t][k].pc = "l56"

\* the step is line 56 of the suspend handler run by t
HandlerRaises(t) ==
    /\ InHandler(t)
    /\ Top(t).pc = "l56"
    /\ Len(frames'[t]) = Len(frames[t])
    /\ frames'[t] # frames[t]

\* C15: at most one thread has a SIGUSR1 outstanding; the suspend handler
\* of t sets sentinel only while a thd_suspend (t) holds mut and waits at
\* line 191 with sentinel still 0; and that wait ends with sentinel 1, the
\* signal of the call consumed and its target past line 56 of the handler.
FlagReuseSafe ==
    [][ /\ \A t \in Threads, u \in Threads :
             (Outstanding(t) /\ Outstanding(u)) => t = u
        /\ \A t \in Threads :
             HandlerRaises(t)
                => /\ sentinel = 0
                   /\ \E c \in Callers :
                         pc[c] = "s191" /\ target[c] = t /\ mut = c
        /\ \A c \in Callers :
             (pc[c] = "s191" /\ StepOf(c))
                => /\ sentinel = 1
                   /\ ~Outstanding(target[c])
                   /\ AtWait(target[c])
        /\ \A c \in Callers :
             (pc[c] = "s191" /\ sentinel' # sentinel)
                => HandlerRaises(target[c])
      ]_vars

\* The flag is used a second time: one worker is suspended and waits, and
\* the handler of another has just ended the wait of a later thd_suspend.
FlagUsedAgain ==
    \E c \in Callers, t \in Workers, u \in Workers :
        /\ t # u
        /\ Suspended(u) /\ Blocked(u)
        /\ pc[c] = "s194" /\ target[c] = t
        /\ sentinel = 1
        /\ AtWait(t)

\* t has called sigsuspend in the suspend handler and sigsuspend has not
\* returned
InWait(t) ==
    \E k \in 1 .. Len(frames[t]) :
        frames[t][k].h = "suspend" /\ frames[t][k].pc \in {"sigsuspend", "woken"}

\* C16: a thread waiting in sigsuspend of the suspend handler takes no step
\* but the delivery of SIGUSR2, which starts the resume handler and leaves a
\* pending SIGUSR1 pending; no signal but SIGUSR2 can be delivered to it;
\* sigsuspend returns only when the resume handler has returned; and no
\* suspend handler starts in a thread whose sigsuspend has not returned.
WokenOnlyByResume ==
    [][ \A t \in Threads :
          /\ Blocked(t) => pending[t] \ sigmask[t] \subseteq {SIGUSR2}
          /\ (Blocked(t) /\ frames'[t] # frames[t])
                => /\ SIGUSR2 \in pending[t]
                   /\ pending'[t] = pending[t] \ {SIGUSR2}
                   /\ Len(frames'[t]) = Len(frames[t]) + 1
                   /\ frames'[t][Len(frames'[t])].h = "resume"
          /\ \A k \in 1 .. Len(frames[t]) :
                (/\ frames[t][k].pc = "woken"
                 /\ k <= Len(frames'[t])
                 /\ frames'[t][k].pc # "woken")
                   => (k = Len(frames[t]) /\ Len(frames'[t]) = k)
          /\ (InWait(t) /\ Len(frames'[t]) > Len(frames[t]))
                => frames'[t][Len(frames'[t])].h = "resume"
      ]_vars

\* A further SIGUSR1 has been sent to a thread that waits in sigsuspend: the
\* thread still waits and the signal is still pending.
SecondSignalHeldBack ==
    \E t \in Workers :
        /\ Blocked(t)
        /\ SIGUSR1 \in pending[t]
        /\ SIGUSR1 \in sigmask[t]

\* C17: every slot index that a step of thd_suspend or thd_continue reads or
\* writes lies inside the allocated block: the indices 0 .. i of the
\* empty-slot search, the index bottom of the clearing after growth, the
\* index i of the insertion, the indices 0 .. i of the lookup of
\* thd_continue and the index i of its clearing.
IndexInBounds ==
    [][ \A c \in Callers :
          StepOf(c) =>
            /\ pc[c] = "s152" => \A k \in 0 .. (bottom - 1) : k \in DOMAIN array
            /\ pc[c] = "s163" => \A k \in 0 .. i'[c] : k \in DOMAIN array
            /\ (pc[c] = "s167" /\ pc'[c] = "s181") => bottom' \in DOMAIN array'
            /\ pc[c] = "s194" => i[c] \in DOMAIN array
            /\ pc[c] = "c232"
                  => \A k \in 0 .. Lookup232(target[c]) : k \in DOMAIN array
            /\ pc[c] = "c250" => i[c] \in DOMAIN array
      ]_vars

\* a thd_continue (t) holds mut between sending SIGUSR2 and clearing the slot
Resuming(t) == \E c \in Callers : pc[c] = "c250" /\ target[c] = t

\* SIGUSR2 is pending on t or its handler runs in t
ResumeSent(t) ==
    \/ SIGUSR2 \in pending[t]
    \/ \E k \in 1 .. Len(frames[t]) : frames[t][k].h = "resume"

\* C18: a thread in the registry has set the flag in its suspend handler and
\* has not left the handler's wait, and no SIGUSR2 has been sent to it since,
\* but for the locked section of thd_continue that sends the signal and then
\* clears the slot; a thread enters the registry only at line 194, after
\* the wait of line 191, and it leaves it only at line 250.
RecordedIsSuspended ==
    [][ /\ \A t \in Workers :
             (Recorded(t) /\ ~Resuming(t))
                => /\ AtWait(t)
                   /\ ~ResumeSent(t)
                   /\ ~(\E k \in 1 .. Len(frames[t]) : frames[t][k].pc = "woken")
        /\ \A t \in Workers :
             (~Recorded(t) /\ Recorded(t)')
                => \E c \in Callers :
                      pc[c] = "s194" /\ target[c] = t /\ mut = c /\ sentinel = 1
        /\ \A t \in Workers :
             (Recorded(t) /\ ~Recorded(t)')
                => \E c \in Callers :
                      pc[c] = "c250" /\ target[c] = t /\ mut = c
        /\ \A c \in Callers :
             (pc[c] = "c244" /\ pc'[c] = "c250") => (mut' = c /\ Recorded(target[c]))
      ]_vars

\* After a thd_continue and a thd_suspend have returned 0, one thread is in
\* the registry and waits with no resume signal on its way, and every other
\* worker is out of the registry and runs.
RecordedAndWaiting ==
    \E t \in Workers, c \in Callers, d \in Callers :
        /\ c # d
        /\ last[c].path = "resumed"
        /\ last[d].path = "suspended"
        /\ Recorded(t) /\ Blocked(t) /\ pending[t] = {}
        /\ \A u \in Workers \ {t} : ~InHandler(u) /\ ~Recorded(u) /\ pending[u] = {}

\* C19: under fair scheduling of every thread and a mutex that serves every
\* waiter, each call of thd_suspend and thd_continue returns.
CallsReturn ==
    \A c \in (NWorkers + 1) .. (NWorkers + NCallers) :
        (pc[c] # "idle") ~> (pc[c] = "idle")

\* C20: no thread waits in sigsuspend of the suspend handler while it is the
\* owner of mut.
NeverBlockedHoldingMut ==
    \A t \in Threads : ~(Blocked(t) /\ mut = t)

====
